---- MODULE Spec2Model ----
(***************************************************************************)
(* The daily-recipe resolution pipeline of App-Lancheirinha:               *)
(* fetchDailyRecipe (src/src/App.tsx), generateDailyRecipe and the         *)
(* Supabase client configuration (src/unnamed/part_000).                   *)
(*                                                                         *)
(* Several devices run the app against one shared table daily_recipes.     *)
(* Each device has its own localStorage and its own React state.  One      *)
(* action is the synchronous code between two awaits of fetchDailyRecipe.  *)
(***************************************************************************)
EXTENDS Integers, Sequences, FiniteSets, TLC

VARIABLES
    now,                 \* the wall clock at its latest reading, in half days (UTC)
    table,               \* the rows of the shared table daily_recipes
    pc,                  \* per device: where fetchDailyRecipe is suspended
    today,               \* per device: const today (App.tsx:64)
    todayString,         \* per device: const todayString (App.tsx:65)
    dailyRecipe,         \* per device: React state dailyRecipe (App.tsx:53)
    isGeneratingRecipe,  \* per device: React state isGeneratingRecipe (App.tsx:54)
    localStorage,        \* per device: the items daily_recipe and daily_recipe_date
    log,                 \* per device: what the current resolution has done so far
    reloads,             \* number of times the app was loaded again, on any device
    prev,                \* per device: the recipe the previous session showed, and its tag
    env,                 \* per device: the build environment of its bundle
    answer,              \* per device: what its lookup settled to, not yet handled
    lastUpsert           \* the row of the upsert the table applied last

vars == <<now, table, pc, today, todayString, dailyRecipe, isGeneratingRecipe,
          localStorage, log, reloads, prev, env, answer, lastUpsert>>

Devices == {"d1", "d2"}

\* Bounds of the model.
MaxNow == 2
MaxReloads == 1

-----------------------------------------------------------------------------
(* JSON values: what JSON.parse can return and what recipe_data can hold.  *)

Null == [type |-> "null", title |-> "", benefits |-> [type |-> "undefined", items |-> <<>>]]

NoBenefits == [type |-> "undefined", items |-> <<>>]
ArrayBenefits(items) == [type |-> "array", items |-> items]

Obj(title, benefits) == [type |-> "object", title |-> title, benefits |-> benefits]

\* null, two well-formed recipes (an empty benefits array is well-formed),
\* and an object that is not one: it has no benefits.
JsonValues ==
    {Null,
     Obj("Espeto de Frutas", ArrayBenefits(<<"Vitamina C">>)),
     Obj("Salada de Frutas", ArrayBenefits(<<>>)),
     Obj("Vitamina de Banana", NoBenefits)}

\* Array.isArray(x)
IsArray(x) == x.type = "array"

\* A variant of Truthy under which null passes the test.
NotUndefined(v) == TRUE

\* JavaScript truthiness of a parsed JSON value: null is falsy, an object truthy.
Truthy(v) == v.type # "null"

\* JSON.stringify(v), as a sequence of tokens. A property whose value is
\* undefined is left out.
StringifyBenefits(b) ==
    IF b.type = "undefined" THEN <<>>
    ELSE <<"benefits:", "[">> \o b.items \o <<"]">>

Stringify(v) ==
    IF v.type = "null" THEN <<"null">>
    ELSE <<"{", "title:", v.title>> \o StringifyBenefits(v.benefits) \o <<"}">>

\* JSON.parse(s): the value whose text s is, or a SyntaxError.
JsonParse(s) ==
    IF \E v \in JsonValues : Stringify(v) = s
    THEN [ok |-> TRUE, value |-> CHOOSE v \in JsonValues : Stringify(v) = s]
    ELSE [ok |-> FALSE, value |-> Null]

\* A string that is not JSON.
Corrupt == <<"{", "title:">>

-----------------------------------------------------------------------------
(* The Date Normalizer: the two renderings of "now" (App.tsx:64-65).       *)

\* How far the device's timezone is behind UTC, in half days.
Offset(d) == IF d = "d1" THEN 0 ELSE 1

\* new Date().toISOString().split(T)[0]: the UTC calendar date.
DateKey(t) == [fmt |-> "YYYY-MM-DD", day |-> t \div 2]

\* new Date().toDateString(): the calendar date in the device's timezone.
DateString(t, d) == [fmt |-> "toDateString", day |-> (t - Offset(d)) \div 2]

\* localStorage.getItem of a key that is not set.
NoDate == [fmt |-> "null", day |-> 0]

-----------------------------------------------------------------------------
(* generateDailyRecipe (part_000:23-77).                                   *)

\* The code-fence marker (three backticks), one token of a text.
Fence == "<fence>"

RECURSIVE RemoveFenceJson(_)
\* text.replace of every fence marker followed by json with the empty string
RemoveFenceJson(s) ==
    IF Len(s) = 0 THEN <<>>
    ELSE IF Len(s) >= 2 /\ s[1] = Fence /\ s[2] = "json"
         THEN RemoveFenceJson(SubSeq(s, 3, Len(s)))
         ELSE <<s[1]>> \o RemoveFenceJson(Tail(s))

\* text.replace of every fence marker with the empty string
RemoveFence(s) == SelectSeq(s, LAMBDA tok : tok # Fence)

RECURSIVE TrimLeft(_)
TrimLeft(s) == IF Len(s) > 0 /\ s[1] = "\n" THEN TrimLeft(Tail(s)) ELSE s

RECURSIVE TrimRight(_)
TrimRight(s) ==
    IF Len(s) > 0 /\ s[Len(s)] = "\n" THEN TrimRight(SubSeq(s, 1, Len(s) - 1)) ELSE s

\* String.prototype.trim
Trim(s) == TrimRight(TrimLeft(s))

\* text.includes of the fence marker
IncludesFence(s) == \E i \in 1..Len(s) : s[i] = Fence

\* part_000:58-63: the text that is handed to JSON.parse
StripFences(text) ==
    LET t == Trim(text) IN
    IF IncludesFence(t) THEN Trim(RemoveFence(RemoveFenceJson(t))) ELSE t

\* What ai.models.generateContent does: it throws, or it returns a response
\* whose text is empty or a string.
Throws == [kind |-> "throw", text |-> <<>>]
Text(s) == [kind |-> "text", text |-> s]

Payloads == {Stringify(v) : v \in JsonValues} \cup {Corrupt}

Plain(p) == <<"\n">> \o p
Fenced(p) == <<Fence, "json", "\n">> \o p \o <<"\n", Fence>>
BareFenced(p) == <<Fence, "\n">> \o p \o <<Fence>>

Responses ==
    {Throws, Text(<<>>)}
    \cup {Text(Plain(p)) : p \in Payloads}
    \cup {Text(Fenced(p)) : p \in Payloads}
    \cup {Text(BareFenced(p)) : p \in Payloads}

\* A variant of generateDailyRecipe without the outer try and catch: what
\* the service throws is raised to the caller.
generateDailyRecipeUncaught(response) ==
    IF response.kind = "throw" THEN [Null EXCEPT !.type = "raised"]
    ELSE IF response.text = <<>> THEN Null
    ELSE LET parsed == JsonParse(StripFences(response.text)) IN
         IF parsed.ok THEN parsed.value ELSE Null

\* The value generateDailyRecipe resolves to; Null is the null of JavaScript.
generateDailyRecipe(response) ==
    IF response.kind = "throw" THEN Null
    ELSE IF response.text = <<>> THEN Null
    ELSE LET parsed == JsonParse(StripFences(response.text)) IN
         IF parsed.ok THEN parsed.value ELSE Null

\* The generateDailyRecipe of src/src/types.ts:50-92: the trimmed text is
\* parsed as it is, and the catch of the function turns the SyntaxError of
\* JSON.parse into null.
generateDailyRecipeUnstripped(response) ==
    IF response.kind = "throw" THEN Null
    ELSE IF response.text = <<>> THEN Null
    ELSE LET parsed == JsonParse(Trim(response.text)) IN
         IF parsed.ok THEN parsed.value ELSE Null

\* import { generateDailyRecipe } from ./services/geminiService (App.tsx:30):
\* the repository holds both functions, the bundle of a device holds one.
\* What each of the two functions returns, for every response.
geminiServices ==
    [service \in {"part_000", "types"} |->
        [response \in Responses |->
            IF service = "part_000" THEN generateDailyRecipe(response)
            ELSE generateDailyRecipeUnstripped(response)]]

geminiService(e, response) == geminiServices[e.service][response]

\* No call of ai.models.generateContent has come back.
NoResponse == [kind |-> "none", text |-> <<>>]

-----------------------------------------------------------------------------
(* The shared table daily_recipes: rows {date, recipe_data}.               *)

Row(date, recipe) == [date |-> date, recipe_data |-> recipe]

\* A variant of isSupabaseConfigured that looks at the URL alone.
isSupabaseConfiguredByUrl(e) == e.url

\* isSupabaseConfigured (part_000:84, part_000:101): both VITE_SUPABASE_URL
\* and VITE_SUPABASE_ANON_KEY of the build are non-empty.
isSupabaseConfigured(e) == e.url /\ e.anonKey

\* A variant of SelectEq without the .eq('date', date) filter.
SelectAll(rows, date) == rows

\* .select('recipe_data').eq('date', date)
SelectEq(rows, date) == {r \in rows : r.date = date}

\* .single(): the row if exactly one row matches, an error result otherwise.
Single(rows) ==
    IF Cardinality(rows) = 1
    THEN [data |-> TRUE, row |-> CHOOSE r \in rows : TRUE, error |-> FALSE]
    ELSE [data |-> FALSE, row |-> Row(NoDate, Null), error |-> TRUE]

\* A request that failed on the network: no data, an error result.
NetworkError == [data |-> FALSE, row |-> Row(NoDate, Null), error |-> TRUE]

\* What the awaited query settles to: a result, or a rejection.
Fulfilled(res) == [settled |-> "fulfilled", res |-> res]
Rejected == [settled |-> "rejected", res |-> NetworkError]
NoAnswer == [settled |-> "pending", res |-> NetworkError]

\* A variant of Upsert that is a plain insert: a row whose date the table
\* already holds is refused with a unique-violation error.
Insert(rows, row) ==
    IF \E r \in rows : r.date = row.date
    THEN [rows |-> rows, error |-> TRUE]
    ELSE [rows |-> rows \cup {row}, error |-> FALSE]

\* A variant of Upsert without the conflict target: the row is added beside
\* the row that holds the same date.
UpsertAppend(rows, row) == [rows |-> rows \cup {row}, error |-> FALSE]

\* A variant of Upsert that replaces the whole table by the row.
UpsertReplaceAll(rows, row) == [rows |-> {row}, error |-> FALSE]

\* .upsert({date, recipe_data}, {onConflict: 'date'}): insert the row, or
\* replace the row that holds the same date.
Upsert(rows, row) ==
    [rows |-> {r \in rows : r.date # row.date} \cup {row}, error |-> FALSE]

-----------------------------------------------------------------------------
(* The local cache: localStorage items daily_recipe and daily_recipe_date. *)

EmptyStorage == [daily_recipe |-> <<>>, daily_recipe_date |-> NoDate]

\* A variant of LocalLookup that expects the tag in the format of the date
\* key, which the stored tag never has.
LocalLookupByDateKey(ls, tag) ==
    IF ls.daily_recipe # <<>> /\ ls.daily_recipe_date = [tag EXCEPT !.fmt = "YYYY-MM-DD"]
    THEN LET parsed == JsonParse(ls.daily_recipe) IN
         IF parsed.ok /\ Truthy(parsed.value) /\ IsArray(parsed.value.benefits)
         THEN [hit |-> TRUE, recipe |-> parsed.value]
         ELSE [hit |-> FALSE, recipe |-> Null]
    ELSE [hit |-> FALSE, recipe |-> Null]

\* A variant of LocalLookup that does not compare the tag.
LocalLookupAnyDay(ls, tag) ==
    IF ls.daily_recipe # <<>>
    THEN LET parsed == JsonParse(ls.daily_recipe) IN
         IF parsed.ok /\ Truthy(parsed.value) /\ IsArray(parsed.value.benefits)
         THEN [hit |-> TRUE, recipe |-> parsed.value]
         ELSE [hit |-> FALSE, recipe |-> Null]
    ELSE [hit |-> FALSE, recipe |-> Null]

\* App.tsx:71-81: the recipe of a local hit, or a miss.
LocalLookup(ls, tag) ==
    IF ls.daily_recipe # <<>> /\ ls.daily_recipe_date = tag
    THEN LET parsed == JsonParse(ls.daily_recipe) IN
         IF parsed.ok /\ Truthy(parsed.value) /\ IsArray(parsed.value.benefits)
         THEN [hit |-> TRUE, recipe |-> parsed.value]
         ELSE [hit |-> FALSE, recipe |-> Null]
    ELSE [hit |-> FALSE, recipe |-> Null]

\* What localStorage.setItem does in the two calls of App.tsx:97-98 and
\* App.tsx:108-109: "none" throws in neither, "recipe" throws in the first
\* (QuotaExceededError), "date" throws in the second.
Faults == {"none", "recipe", "date"}

\* A variant of SetItems that writes the blob and leaves the tag alone.
SetItemsNoTag(ls, recipe, tag, fault) ==
    IF fault = "recipe" THEN ls
    ELSE [ls EXCEPT !.daily_recipe = Stringify(recipe)]

\* A variant of SetItems that writes the tag in the format of the date key.
SetItemsUnderDateKey(ls, recipe, tag, fault) ==
    IF fault = "recipe" THEN ls
    ELSE IF fault = "date" THEN [ls EXCEPT !.daily_recipe = Stringify(recipe)]
    ELSE [daily_recipe |-> Stringify(recipe),
          daily_recipe_date |-> [tag EXCEPT !.fmt = "YYYY-MM-DD"]]

SetItems(ls, recipe, tag, fault) ==
    IF fault = "recipe" THEN ls
    ELSE IF fault = "date" THEN [ls EXCEPT !.daily_recipe = Stringify(recipe)]
    ELSE [daily_recipe |-> Stringify(recipe), daily_recipe_date |-> tag]

\* App.tsx:94: the condition of a shared hit.
SharedHit(res) == res.data /\ ~res.error

-----------------------------------------------------------------------------
(* The state machine.                                                      *)

\* A recipe as the data model defines it: an object whose benefits is an array.
IsRecipe(v) == v.type = "object" /\ v.benefits.type = "array"

\* What the local cache holds when the resolution reads it: nothing, or an
\* entry whose tag is or is not today's tag and whose blob is or is not the
\* text of a recipe.
CacheState(ls, tag) ==
    IF ls.daily_recipe = <<>> THEN "absent"
    ELSE LET wellFormed == \E v \in JsonValues :
                              IsRecipe(v) /\ ls.daily_recipe = Stringify(v)
             fresh == ls.daily_recipe_date = tag
         IN  IF fresh THEN (IF wellFormed THEN "freshRecipe" ELSE "freshOther")
             ELSE (IF wellFormed THEN "staleRecipe" ELSE "staleOther")

\* The local write of SetItems under a fault.
Written(fault) ==
    IF fault = "none" THEN "both" ELSE IF fault = "date" THEN "blobOnly" ELSE "nothing"

EmptyLog ==
    [local |-> "none",        \* the local stage ended in: none, hit, miss
     selects |-> 0,           \* point lookups issued to the shared table
     stored |-> Null,         \* recipe_data the table held under today when it answered
     shared |-> "none",       \* the shared stage ended in: none, unavailable, hit, miss, threw
     generations |-> 0,       \* calls of generateDailyRecipe
     response |-> NoResponse, \* what ai.models.generateContent did in that call
     returned |-> Null,       \* the value generateDailyRecipe resolved to
     generated |-> "none",    \* the generation stage ended in: none, recipe, null
     upserts |-> 0,           \* upserts issued to the shared table
     published |-> "none",    \* the upsert: none, applied, conflict, error, threw
     written |-> "none",      \* the local write: none, both, blobOnly, nothing
     caught |-> FALSE]        \* the catch block of App.tsx:118 ran

\* The devices at the start: which hold a blob that is not JSON in their
\* local cache, which run a bundle built without the Supabase key, and
\* which run a bundle whose geminiService is the one of src/src/types.ts.
Fixtures ==
    {[corrupt |-> {}, unconfigured |-> {}, unstripped |-> {}],
     [corrupt |-> {}, unconfigured |-> {"d2"}, unstripped |-> {"d1"}],
     [corrupt |-> {"d1"}, unconfigured |-> {"d2"}, unstripped |-> {"d2"}]}

NoPrev == [recipe |-> Null, tag |-> NoDate]

Init ==
    /\ now = 1
    /\ table = {}
    /\ pc = [d \in Devices |-> "idle"]
    /\ today = [d \in Devices |-> NoDate]
    /\ todayString = [d \in Devices |-> NoDate]
    /\ dailyRecipe = [d \in Devices |-> Null]
    /\ isGeneratingRecipe = [d \in Devices |-> FALSE]
    /\ \E f \in Fixtures :
        /\ localStorage = [d \in Devices |->
               IF d \in f.corrupt
               THEN [daily_recipe |-> Corrupt, daily_recipe_date |-> DateString(1, d)]
               ELSE EmptyStorage]
        /\ env = [d \in Devices |->
               [url |-> TRUE, anonKey |-> d \notin f.unconfigured,
                service |-> IF d \in f.unstripped THEN "types" ELSE "part_000"]]
    /\ log = [d \in Devices |-> EmptyLog]
    /\ reloads = 0
    /\ prev = [d \in Devices |-> NoPrev]
    /\ answer = [d \in Devices |-> NoAnswer]
    /\ lastUpsert = Row(NoDate, Null)

\* new Date(): the clock is read. Time has passed since it was last read, by
\* any amount; now is the clock at its latest reading.
Clock == now..MaxNow

\* App.tsx:64-92 and 105: fetchDailyRecipe runs up to its first await. The
\* clock is read for the date key and read again for the freshness tag, the
\* local cache is checked; on a miss the in-flight flag is raised and the
\* lookup is issued if the store is configured, generateDailyRecipe is
\* called if it is not.
CheckLocal(d) ==
    /\ pc[d] = "idle"
    /\ \E t1 \in Clock : \E t2 \in t1..MaxNow :
       LET tag == DateString(t2, d)
           found == LocalLookup(localStorage[d], tag)
       IN
       /\ now' = t2
       /\ today' = [today EXCEPT ![d] = DateKey(t1)]
       /\ todayString' = [todayString EXCEPT ![d] = tag]
       /\ IF found.hit
          THEN /\ dailyRecipe' = [dailyRecipe EXCEPT ![d] = found.recipe]
               /\ pc' = [pc EXCEPT ![d] = "done"]
               /\ log' = [log EXCEPT ![d].local = "hit"]
               /\ UNCHANGED isGeneratingRecipe
          ELSE /\ isGeneratingRecipe' = [isGeneratingRecipe EXCEPT ![d] = TRUE]
               /\ UNCHANGED dailyRecipe
               /\ IF isSupabaseConfigured(env[d])
                  THEN /\ pc' = [pc EXCEPT ![d] = "select"]
                       /\ log' = [log EXCEPT ![d].local = "miss",
                                             ![d].selects = @ + 1]
                  ELSE /\ pc' = [pc EXCEPT ![d] = "generate"]
                       /\ log' = [log EXCEPT ![d].local = "miss",
                                             ![d].shared = "unavailable",
                                             ![d].generations = @ + 1]
    /\ UNCHANGED <<table, localStorage, reloads, prev, env, answer, lastUpsert>>

\* App.tsx:88-92: the lookup is answered. The request resolves to the result
\* of the query or to an error result, or it raises.
SelectAnswer(d) ==
    /\ pc[d] = "select"
    /\ \E outcome \in {"result", "networkError", "throws"} :
        answer' = [answer EXCEPT ![d] =
            IF outcome = "result" THEN Fulfilled(Single(SelectEq(table, today[d])))
            ELSE IF outcome = "networkError" THEN Fulfilled(NetworkError)
            ELSE Rejected]
    /\ log' = [log EXCEPT ![d].stored =
            IF \E r \in table : r.date = today[d]
            THEN (CHOOSE r \in table : r.date = today[d]).recipe_data
            ELSE Null]
    /\ pc' = [pc EXCEPT ![d] = "selected"]
    /\ UNCHANGED <<now, table, today, todayString, dailyRecipe, isGeneratingRecipe,
                   localStorage, reloads, prev, env, lastUpsert>>

\* A variant of SelectReturn without the catch and finally blocks: a lookup
\* that raised rejects fetchDailyRecipe where it was awaited.
SelectReturnWithoutFinally(d) ==
    /\ pc[d] = "selected"
    /\ answer' = [answer EXCEPT ![d] = NoAnswer]
    /\ \E fault \in Faults :
        IF answer[d].settled = "rejected"
        THEN /\ fault = "none"
             /\ log' = [log EXCEPT ![d].shared = "threw"]
             /\ pc' = [pc EXCEPT ![d] = "done"]
             /\ UNCHANGED <<dailyRecipe, localStorage, isGeneratingRecipe>>
        ELSE LET res == answer[d].res
                 recipe == res.row.recipe_data
             IN
             IF SharedHit(res)
             THEN /\ dailyRecipe' = [dailyRecipe EXCEPT ![d] = recipe]
                  /\ localStorage' = [localStorage EXCEPT
                         ![d] = SetItems(@, recipe, todayString[d], fault)]
                  /\ log' = [log EXCEPT ![d].shared = "hit",
                                        ![d].written = Written(fault),
                                        ![d].caught = (fault # "none")]
                  /\ isGeneratingRecipe' = [isGeneratingRecipe EXCEPT ![d] = FALSE]
                  /\ pc' = [pc EXCEPT ![d] = "done"]
             ELSE /\ fault = "none"
                  /\ log' = [log EXCEPT ![d].shared = "miss", ![d].generations = @ + 1]
                  /\ pc' = [pc EXCEPT ![d] = "generate"]
                  /\ UNCHANGED <<dailyRecipe, localStorage, isGeneratingRecipe>>
    /\ UNCHANGED <<now, table, today, todayString, reloads, prev, env, lastUpsert>>

\* App.tsx:88-105 and 118-122: fetchDailyRecipe resumes with the answer.
SelectReturn(d) ==
    /\ pc[d] = "selected"
    /\ answer' = [answer EXCEPT ![d] = NoAnswer]
    /\ \E fault \in Faults :
        IF answer[d].settled = "rejected"
        THEN /\ fault = "none"
             /\ log' = [log EXCEPT ![d].shared = "threw", ![d].caught = TRUE]
             /\ isGeneratingRecipe' = [isGeneratingRecipe EXCEPT ![d] = FALSE]
             /\ pc' = [pc EXCEPT ![d] = "done"]
             /\ UNCHANGED <<dailyRecipe, localStorage>>
        ELSE LET res == answer[d].res
                 recipe == res.row.recipe_data
             IN
             IF SharedHit(res)
             THEN /\ dailyRecipe' = [dailyRecipe EXCEPT ![d] = recipe]
                  /\ localStorage' = [localStorage EXCEPT
                         ![d] = SetItems(@, recipe, todayString[d], fault)]
                  /\ log' = [log EXCEPT ![d].shared = "hit",
                                        ![d].written = Written(fault),
                                        ![d].caught = (fault # "none")]
                  /\ isGeneratingRecipe' = [isGeneratingRecipe EXCEPT ![d] = FALSE]
                  /\ pc' = [pc EXCEPT ![d] = "done"]
             ELSE /\ fault = "none"
                  /\ log' = [log EXCEPT ![d].shared = "miss", ![d].generations = @ + 1]
                  /\ pc' = [pc EXCEPT ![d] = "generate"]
                  /\ UNCHANGED <<dailyRecipe, localStorage, isGeneratingRecipe>>
    /\ UNCHANGED <<now, table, today, todayString, reloads, prev, env, lastUpsert>>

\* App.tsx:105-116 and 118-122: generateDailyRecipe comes back.
GenerateReturn(d) ==
    /\ pc[d] = "generate"
    /\ \E response \in Responses, fault \in Faults :
        LET recipe == geminiService(env[d], response) IN
        IF Truthy(recipe)
        THEN /\ dailyRecipe' = [dailyRecipe EXCEPT ![d] = recipe]
             /\ localStorage' = [localStorage EXCEPT
                    ![d] = SetItems(@, recipe, todayString[d], fault)]
             /\ IF fault # "none"
                THEN /\ log' = [log EXCEPT ![d].response = response,
                                           ![d].returned = recipe,
                                           ![d].generated = "recipe",
                                           ![d].written = Written(fault),
                                           ![d].caught = TRUE]
                     /\ isGeneratingRecipe' = [isGeneratingRecipe EXCEPT ![d] = FALSE]
                     /\ pc' = [pc EXCEPT ![d] = "done"]
                ELSE IF isSupabaseConfigured(env[d])
                THEN /\ log' = [log EXCEPT ![d].response = response,
                                           ![d].returned = recipe,
                                           ![d].generated = "recipe",
                                           ![d].written = Written(fault),
                                           ![d].upserts = @ + 1]
                     /\ pc' = [pc EXCEPT ![d] = "upsert"]
                     /\ UNCHANGED isGeneratingRecipe
                ELSE /\ log' = [log EXCEPT ![d].response = response,
                                           ![d].returned = recipe,
                                           ![d].generated = "recipe",
                                           ![d].written = Written(fault)]
                     /\ isGeneratingRecipe' = [isGeneratingRecipe EXCEPT ![d] = FALSE]
                     /\ pc' = [pc EXCEPT ![d] = "done"]
        ELSE /\ fault = "none"
             /\ log' = [log EXCEPT ![d].response = response,
                                   ![d].returned = recipe,
                                   ![d].generated = "null"]
             /\ isGeneratingRecipe' = [isGeneratingRecipe EXCEPT ![d] = FALSE]
             /\ pc' = [pc EXCEPT ![d] = "done"]
             /\ UNCHANGED <<dailyRecipe, localStorage>>
    /\ UNCHANGED <<now, table, today, todayString, reloads, prev, env, answer, lastUpsert>>

\* App.tsx:113-122: the upsert comes back. The table applied it, or the
\* request failed with an error result (which the code does not read), or
\* it raised.
UpsertReturn(d) ==
    /\ pc[d] = "upsert"
    /\ \E outcome \in {"reached", "networkError", "throws"} :
        LET row == Row(today[d], dailyRecipe[d])
            res == Upsert(table, row)
        IN
        IF outcome = "reached"
        THEN /\ table' = res.rows
             /\ lastUpsert' = IF res.error THEN lastUpsert ELSE row
             /\ log' = [log EXCEPT
                    ![d].published = IF res.error THEN "conflict" ELSE "applied"]
        ELSE /\ log' = [log EXCEPT
                    ![d].published = IF outcome = "throws" THEN "threw" ELSE "error",
                    ![d].caught = (outcome = "throws")]
             /\ UNCHANGED <<table, lastUpsert>>
    /\ isGeneratingRecipe' = [isGeneratingRecipe EXCEPT ![d] = FALSE]
    /\ pc' = [pc EXCEPT ![d] = "done"]
    /\ UNCHANGED <<now, today, todayString, dailyRecipe, localStorage, reloads,
                   prev, env, answer>>

\* A variant of Reload in which the effect runs again within the session.
RerunEffect(d) ==
    /\ pc[d] = "done"
    /\ reloads < MaxReloads
    /\ pc' = [pc EXCEPT ![d] = "idle"]
    /\ log' = [log EXCEPT ![d] = EmptyLog]
    /\ prev' = [prev EXCEPT ![d] = NoPrev]
    /\ UNCHANGED <<now, table, today, todayString, dailyRecipe, isGeneratingRecipe,
                   localStorage, reloads, env, answer, lastUpsert>>

\* The app is loaded again on the device: React state starts afresh
\* (App.tsx:53-54), localStorage is kept, the effect of App.tsx:56 runs again.
Reload(d) ==
    /\ pc[d] = "done"
    /\ reloads < MaxReloads
    /\ reloads' = reloads + 1
    /\ prev' = [prev EXCEPT ![d] = IF dailyRecipe[d] = Null THEN NoPrev
                                    ELSE [recipe |-> dailyRecipe[d],
                                          tag |-> todayString[d]]]
    /\ pc' = [pc EXCEPT ![d] = "idle"]
    /\ dailyRecipe' = [dailyRecipe EXCEPT ![d] = Null]
    /\ isGeneratingRecipe' = [isGeneratingRecipe EXCEPT ![d] = FALSE]
    /\ log' = [log EXCEPT ![d] = EmptyLog]
    /\ today' = [today EXCEPT ![d] = NoDate]
    /\ todayString' = [todayString EXCEPT ![d] = NoDate]
    /\ UNCHANGED <<now, table, localStorage, env, answer, lastUpsert>>

Next ==
    \/ \E d \in Devices : CheckLocal(d)
    \/ \E d \in Devices : SelectAnswer(d)
    \/ \E d \in Devices : SelectReturn(d)
    \/ \E d \in Devices : GenerateReturn(d)
    \/ \E d \in Devices : UpsertReturn(d)
    \/ \E d \in Devices : Reload(d)

Spec == Init /\ [][Next]_vars

\* A step of a resolution: fetchDailyRecipe is started or resumed on some
\* device, or a call it awaits settles.
Step ==
    \E d \in Devices :
        \/ CheckLocal(d)
        \/ SelectAnswer(d)
        \/ SelectReturn(d)
        \/ GenerateReturn(d)
        \/ UpsertReturn(d)

\* Every call completes: the effect of App.tsx:56 runs fetchDailyRecipe when
\* the app is mounted, and each awaited collaborator call settles. Nothing
\* obliges the user to load the app again.
Fairness == WF_vars(Step)

\* The devices at their first load late on the first day: as Init, with the
\* clock at its last value.
LateInit ==
    /\ now = MaxNow
    /\ table = {}
    /\ pc = [d \in Devices |-> "idle"]
    /\ today = [d \in Devices |-> NoDate]
    /\ todayString = [d \in Devices |-> NoDate]
    /\ dailyRecipe = [d \in Devices |-> Null]
    /\ isGeneratingRecipe = [d \in Devices |-> FALSE]
    /\ \E f \in Fixtures :
        /\ localStorage = [d \in Devices |->
               IF d \in f.corrupt
               THEN [daily_recipe |-> Corrupt, daily_recipe_date |-> DateString(MaxNow, d)]
               ELSE EmptyStorage]
        /\ env = [d \in Devices |->
               [url |-> TRUE, anonKey |-> d \notin f.unconfigured,
                service |-> IF d \in f.unstripped THEN "types" ELSE "part_000"]]
    /\ log = [d \in Devices |-> EmptyLog]
    /\ reloads = 0
    /\ prev = [d \in Devices |-> NoPrev]
    /\ answer = [d \in Devices |-> NoAnswer]
    /\ lastUpsert = Row(NoDate, Null)

\* The program from that start, every call of which completes.
FairSpec == LateInit /\ [][Next]_vars /\ Fairness

-----------------------------------------------------------------------------
(* Vocabulary of the properties.                                           *)

\* The shared store is configured for the device: both credentials are set.
Configured(d) == env[d].url /\ env[d].anonKey

Done(d) == pc[d] = "done"
Resolved(d) == Done(d) /\ dailyRecipe[d] # Null
Failed(d) == Done(d) /\ dailyRecipe[d] = Null

\* The resolution of d ended in a hit that gave a recipe.
ValidHit(d) ==
    /\ log[d].local = "hit" \/ log[d].shared = "hit"
    /\ IsRecipe(dailyRecipe[d])

\* Device d takes the step that leaves control point p.
Leaves(d, p) == pc[d] = p /\ pc'[d] # p

\* The local cache holds recipe v tagged with tag: a read of it gives v back.
Holds(ls, v, tag) ==
    /\ ls.daily_recipe_date = tag
    /\ JsonParse(ls.daily_recipe) = [ok |-> TRUE, value |-> v]

-----------------------------------------------------------------------------
\* C1: a resolution invokes the generation service if and only if neither
\* the local cache nor the shared store gave it a recipe (the local lookup
\* missed, and the shared lookup missed, failed or was unavailable).
C1_GenerationIffNoValidHit ==
    \A d \in Devices : Done(d) => (log[d].generations > 0 <=> ~ValidHit(d))

\* C2: a resolution that finds in the local cache a recipe tagged with
\* today's freshness tag exposes that recipe, the same one the previous
\* resolution on the device exposed under that tag, and calls neither the
\* shared store nor the generation service.
C2_SameDayLocalHit ==
    [][\A d \in Devices :
        (Leaves(d, "idle")
         /\ CacheState(localStorage[d], todayString'[d]) = "freshRecipe")
        => /\ pc'[d] = "done"
           /\ Holds(localStorage[d], dailyRecipe'[d], todayString'[d])
           /\ prev[d].tag = todayString'[d] => dailyRecipe'[d] = prev[d].recipe
           /\ ~isGeneratingRecipe'[d]
           /\ log'[d].selects = 0 /\ log'[d].generations = 0 /\ log'[d].upserts = 0
           /\ table' = table]_vars

\* C2 witness: a second resolution under the tag of the first ended by a local
\* hit on the recipe the first one exposed.
C2_Witness ==
    \E d \in Devices :
        /\ Done(d) /\ log[d].local = "hit"
        /\ prev[d].tag = todayString[d]
        /\ prev[d].recipe = dailyRecipe[d]

\* C3 as stated: if the shared store holds a recipe under today's dateKey and
\* the local cache is empty, the resolution exposes exactly that recipe and
\* ends with the local cache holding it under today's freshness tag.
C3_SharedRecordExposedAndCached ==
    [][\A d \in Devices :
        (Leaves(d, "selected") /\ localStorage[d] = EmptyStorage
         /\ IsRecipe(log[d].stored))
        => /\ pc'[d] = "done"
           /\ dailyRecipe'[d] = log[d].stored
           /\ Holds(localStorage'[d], log[d].stored, todayString[d])]_vars

\* C3 amended: if the lookup returns the recipe stored under today's dateKey
\* to a resolution whose local cache is empty, the resolution exposes exactly
\* that recipe, and it ends with the local cache holding that recipe under
\* today's freshness tag unless a localStorage.setItem call threw.
C3_ReturnedRecordExposedAndCached ==
    [][\A d \in Devices :
        LET res == answer[d].res IN
        (Leaves(d, "selected") /\ localStorage[d] = EmptyStorage
         /\ answer[d].settled = "fulfilled" /\ res.data /\ ~res.error
         /\ IsRecipe(res.row.recipe_data))
        => /\ pc'[d] = "done"
           /\ ~isGeneratingRecipe'[d]
           /\ dailyRecipe'[d] = res.row.recipe_data
           /\ log'[d].generations = 0
           /\ log'[d].written = "both"
                => Holds(localStorage'[d], res.row.recipe_data, todayString[d])]_vars

\* C3 witness: a device resolved by a shared hit on a recipe and holds it in
\* its local cache under today's tag.
C3_Witness ==
    \E d \in Devices :
        /\ Resolved(d) /\ log[d].shared = "hit" /\ log[d].written = "both"
        /\ IsRecipe(dailyRecipe[d])
        /\ Holds(localStorage[d], dailyRecipe[d], todayString[d])
        /\ \E r \in table : r.date = today[d] /\ r.recipe_data = dailyRecipe[d]

\* C4: a local cache entry whose tag differs from today's freshness tag is
\* not returned as a local hit, well-formed recipe or not: the in-flight flag
\* is raised and the resolution goes on to the shared stage, where the lookup
\* is issued if the store is configured.
C4_StaleEntryIsMiss ==
    [][\A d \in Devices :
        (Leaves(d, "idle")
         /\ CacheState(localStorage[d], todayString'[d]) = "staleRecipe")
        => /\ pc'[d] # "done"
           /\ dailyRecipe'[d] = Null
           /\ isGeneratingRecipe'[d]
           /\ log'[d].local = "miss"
           /\ IF Configured(d)
              THEN pc'[d] = "select" /\ log'[d].selects = 1
              ELSE log'[d].shared = "unavailable"]_vars

\* C4 witness: a resolution is at the shared stage while the local cache
\* still holds a well-formed recipe under another day's tag.
C4_Witness ==
    \E d \in Devices :
        /\ pc[d] = "select"
        /\ CacheState(localStorage[d], todayString[d]) = "staleRecipe"

\* C5: an object read from the local cache or from the shared store whose
\* benefits is absent or not an array is a miss at that stage: it is not
\* exposed, not written to the local cache, and the next stage runs.
C5_MalformedIsMiss ==
    [][\A d \in Devices :
        /\ (Leaves(d, "idle")
            /\ CacheState(localStorage[d], todayString'[d]) = "freshOther")
           => pc'[d] # "done" /\ dailyRecipe'[d] = Null
        /\ (Leaves(d, "selected") /\ answer[d].settled = "fulfilled"
            /\ answer[d].res.data /\ ~IsRecipe(answer[d].res.row.recipe_data))
           => /\ pc'[d] = "generate"
              /\ dailyRecipe'[d] = Null
              /\ localStorage'[d] = localStorage[d]]_vars

\* C6: when both caches miss and the generation service returns a parseable
\* object without a benefits field, the resolution ends Failed: the exposed
\* recipe is null, nothing is written to the local cache, nothing published.
C6_NoBenefitsIsFailure ==
    \A d \in Devices :
        (log[d].generated # "none" /\ log[d].returned.type = "object"
         /\ log[d].returned.benefits.type = "undefined")
        => /\ pc[d] = "done"
           /\ dailyRecipe[d] = Null
           /\ log[d].written = "none"
           /\ log[d].upserts = 0

\* Devices d and e both missed the shared store for the same dateKey, both
\* generated, and the upserts of both reached the table.
Raced(d, e) ==
    /\ d # e
    /\ today[d] = today[e]
    /\ log[d].shared = "miss" /\ log[e].shared = "miss"
    /\ log[d].published \in {"applied", "conflict"}
    /\ log[e].published \in {"applied", "conflict"}

\* C7: when two devices race for the same dateKey, both generating and both
\* upserting, neither upsert fails on the other's record and neither
\* resolution ends in its error path; a later point lookup by that dateKey
\* returns one record, the one of the upsert applied last, which holds one
\* of the two generated recipes.
C7_RaceConverges ==
    \A d, e \in Devices :
        Raced(d, e)
        => /\ log[d].published = "applied" /\ log[e].published = "applied"
           /\ ~log[d].caught /\ ~log[e].caught
           /\ Resolved(d) /\ Resolved(e)
           /\ LET res == Single(SelectEq(table, today[d])) IN
              /\ res.data /\ ~res.error
              /\ res.row = lastUpsert
              /\ res.row.recipe_data \in {log[d].returned, log[e].returned}

\* C7 witness: two devices that started with empty local caches against an
\* empty table raced and generated different recipes.
C7_Witness ==
    \E d, e \in Devices :
        /\ Raced(d, e) /\ reloads = 0
        /\ Configured(d) /\ Configured(e)
        /\ log[d].returned # log[e].returned
        /\ log[d].stored = Null /\ log[e].stored = Null

\* C8 as stated: with the shared store configured, all devices that end
\* Resolved for the same date expose the same recipe.
C8_SameRecipeForAll ==
    \A d, e \in Devices :
        (Configured(d) /\ Configured(e) /\ Resolved(d) /\ Resolved(e)
         /\ today[d] = today[e])
        => dailyRecipe[d] = dailyRecipe[e]

\* C8 amended: a lookup that returns a row returns the row the table holds
\* under the device's dateKey at that moment, and a device that ends Resolved
\* by a shared hit exposes exactly the recipe of the row returned to it.
\* (Two devices that both miss before either publishes each expose the
\* recipe they generated themselves.)
C8_SharedHitExposesStoredRecord ==
    [][\A d \in Devices :
        /\ (Leaves(d, "select") /\ answer'[d].res.data)
           => /\ answer'[d].res.row \in table
              /\ answer'[d].res.row.date = today[d]
        /\ (Leaves(d, "selected") /\ log'[d].shared = "hit")
           => /\ Resolved(d)'
              /\ dailyRecipe'[d] = answer[d].res.row.recipe_data
              /\ dailyRecipe'[d] = log[d].stored]_vars

\* C8 witness: a device resolved by a shared hit on the record another device
\* generated and published, while the table also holds another day's record.
C8_Witness ==
    \E d, e \in Devices :
        /\ d # e /\ today[d] = today[e]
        /\ Resolved(d) /\ log[d].shared = "hit"
        /\ Resolved(e) /\ log[e].published = "applied"
        /\ dailyRecipe[d] = dailyRecipe[e]

\* C9 as stated: with the local cache empty, the shared store unconfigured
\* and generation returning a recipe R, the resolution exposes exactly R and
\* ends with the local cache holding R under today's freshness tag.
C9_GeneratedExposedAndCached ==
    [][\A d \in Devices :
        (Leaves(d, "generate") /\ ~Configured(d)
         /\ localStorage[d] = EmptyStorage /\ IsRecipe(log'[d].returned))
        => /\ pc'[d] = "done"
           /\ dailyRecipe'[d] = log'[d].returned
           /\ Holds(localStorage'[d], log'[d].returned, todayString[d])]_vars

\* C9 amended: with the local cache empty, the shared store unconfigured and
\* generation returning a recipe R, the resolution exposes exactly R, and it
\* ends with the local cache holding R under today's freshness tag (a read
\* of the cache under that tag is a hit on R) unless a localStorage.setItem
\* call threw.
C9_GeneratedExposedAndCachedUnlessWriteFails ==
    [][\A d \in Devices :
        (Leaves(d, "generate") /\ ~Configured(d)
         /\ localStorage[d] = EmptyStorage /\ IsRecipe(log'[d].returned))
        => /\ pc'[d] = "done"
           /\ ~isGeneratingRecipe'[d]
           /\ dailyRecipe'[d] = log'[d].returned
           /\ log'[d].written = "both"
                => /\ Holds(localStorage'[d], log'[d].returned, todayString[d])
                   /\ LocalLookup(localStorage'[d], todayString[d])
                        = [hit |-> TRUE, recipe |-> log'[d].returned]]_vars

\* C9 witness: an unconfigured device that started with an empty local cache
\* generated a recipe, exposes it and holds it under today's tag.
C9_Witness ==
    \E d \in Devices :
        /\ ~Configured(d) /\ reloads = 0 /\ Resolved(d)
        /\ log[d].generated = "recipe" /\ IsRecipe(log[d].returned)
        /\ log[d].written = "both"
        /\ Holds(localStorage[d], dailyRecipe[d], todayString[d])

\* C10: a device whose shared store is not configured issues no lookup and
\* no upsert, whatever path its resolution takes, and changes no row of the
\* table.
C10_UnconfiguredNeverTouchesStore ==
    \A d \in Devices :
        ~Configured(d)
        => /\ log[d].selects = 0 /\ log[d].upserts = 0
           /\ pc[d] \notin {"select", "selected", "upsert"}
           /\ answer[d] = NoAnswer
           /\ log[d].shared \in {"none", "unavailable"}
           /\ log[d].published = "none"
           /\ log[d].generated = "recipe"
                => \A r \in table : r.recipe_data = dailyRecipe[d]
                        => \E e \in Devices \ {d} : Configured(e)

\* C10 witness: an unconfigured device generated a recipe while the table
\* holds a record another device published.
C10_Witness ==
    \E d \in Devices :
        /\ ~Configured(d) /\ Resolved(d) /\ log[d].generated = "recipe"
        /\ table # {}

\* C11: when the generation service returns the JSON of a recipe wrapped in
\* code-fence markers, generateDailyRecipe returns the parsed recipe, the
\* same it returns for that payload without fences, and the resolution
\* exposes it.
C11_FencedPayloadIsParsed ==
    [][\A d \in Devices : \A p \in Payloads :
        (/\ Leaves(d, "generate")
         /\ JsonParse(p).ok /\ IsRecipe(JsonParse(p).value)
         /\ log'[d].response \in {Text(Fenced(p)), Text(BareFenced(p))})
        => /\ log'[d].returned = JsonParse(p).value
           /\ log'[d].returned = geminiService(env[d], Text(Plain(p)))
           /\ dailyRecipe'[d] = JsonParse(p).value]_vars

\* C12: every resolution eventually ends, Resolved or Failed, with the
\* in-flight flag false, whatever the lookup, the generation and the upsert
\* do, provided each of them completes.
C12_ResolutionTerminates ==
    \A d \in Devices :
        (pc[d] # "done") ~> (/\ Resolved(d) \/ Failed(d)
                             /\ ~isGeneratingRecipe[d])

\* C12 witness: a resolution whose lookup raised ended with the flag false,
\* and one whose upsert raised did.
C12_Witness ==
    \E d, e \in Devices :
        /\ Done(d) /\ log[d].shared = "threw" /\ ~isGeneratingRecipe[d]
        /\ Done(e) /\ log[e].published = "threw" /\ ~isGeneratingRecipe[e]

\* C13: if generation returned a recipe and the upsert then fails, with an
\* error result or by raising, the resolution still ends Resolved: the
\* generated recipe stays exposed, the in-flight flag is cleared, and the
\* local cache holds the recipe under the freshness tag of the resolution.
C13_UpsertFailureKeepsRecipe ==
    [][\A d \in Devices :
        (Leaves(d, "upsert") /\ log'[d].published \in {"error", "threw"})
        => /\ Resolved(d)'
           /\ dailyRecipe'[d] = log[d].returned
           /\ ~isGeneratingRecipe'[d]
           /\ Holds(localStorage'[d], log[d].returned, todayString[d])
           /\ table' = table]_vars

\* C13 witness: one resolution ended Resolved after its upsert raised, and
\* one after its upsert came back with an error result.
C13_Witness ==
    \E d, e \in Devices :
        /\ Resolved(d) /\ log[d].published = "threw"
        /\ Resolved(e) /\ log[e].published = "error"
        /\ Holds(localStorage[d], dailyRecipe[d], todayString[d])

\* C14: a localStorage.setItem that throws does not abort the pipeline.
\* After generation returned a recipe the recipe is exposed and, when the
\* store is configured, the upsert is issued; after a shared hit the recipe
\* is exposed and the resolution ends Resolved.
C14_LocalWriteFailureDoesNotAbort ==
    [][\A d \in Devices :
        /\ (Leaves(d, "generate") /\ Truthy(log'[d].returned)
            /\ log'[d].written # "both")
           => /\ dailyRecipe'[d] = log'[d].returned
              /\ Configured(d) => (pc'[d] = "upsert" /\ log'[d].upserts = 1)
        /\ (Leaves(d, "selected") /\ log'[d].shared = "hit"
            /\ log'[d].written # "both")
           => (Resolved(d)' /\ ~isGeneratingRecipe'[d])]_vars

\* C15: within one resolution the date key and the freshness tag name the
\* same calendar day.
C15_KeyAndTagOfOneDay ==
    \A d \in Devices :
        today[d] # NoDate => today[d].day = todayString[d].day

\* C16: with the store configured, a lookup that ends in an error, returned
\* as an error result or raised, is a miss: the resolution goes on to the
\* generation stage and calls the generation service.
C16_LookupErrorIsMiss ==
    [][\A d \in Devices :
        (Leaves(d, "selected")
         /\ (answer[d].settled = "rejected" \/ answer[d].res.error))
        => /\ pc'[d] = "generate"
           /\ log'[d].shared = "miss"
           /\ log'[d].generations = 1]_vars

\* C17: when both caches missed and generation returns null, the resolution
\* ends Failed with null exposed and the flag cleared, the local cache and
\* the table are as they were, and nothing is published; no resolution calls
\* the generation service more than once.
C17_GenerationFailureIsFinal ==
    [][\A d \in Devices :
        /\ log'[d].generations <= 1
        /\ (Leaves(d, "generate") /\ log'[d].returned = Null)
           => /\ Failed(d)'
              /\ ~isGeneratingRecipe'[d]
              /\ localStorage'[d] = localStorage[d]
              /\ table' = table
              /\ log'[d].upserts = 0
              /\ log'[d].written = "none"]_vars

\* C17 witness: a resolution ended Failed after generation returned null,
\* on a device whose local cache was not empty, while the table holds a row.
C17_Witness ==
    \E d \in Devices :
        /\ Failed(d) /\ log[d].generated = "null" /\ log[d].generations = 1
        /\ localStorage[d] # EmptyStorage
        /\ table # {}

\* C18: the generated recipe is handed to the UI without waiting for the
\* upsert: in no reachable state is the recipe set, the upsert pending and
\* the in-flight flag still true.
C18_PublishDoesNotBlock ==
    \A d \in Devices :
        ~(dailyRecipe[d] # Null /\ pc[d] = "upsert" /\ isGeneratingRecipe[d])

\* C19: fetchDailyRecipe is entered once per session. Once a resolution has
\* ended, nothing of the device changes until the app is loaded again: no
\* local read, lookup, generation or upsert happens, whatever the clock
\* does; and a resolution only starts over when the app is loaded again.
C19_EnteredOncePerSession ==
    [][\A d \in Devices :
        /\ (pc[d] = "done" /\ pc'[d] # "idle")
           => /\ pc'[d] = "done"
              /\ log'[d] = log[d]
              /\ dailyRecipe'[d] = dailyRecipe[d]
              /\ isGeneratingRecipe'[d] = isGeneratingRecipe[d]
              /\ localStorage'[d] = localStorage[d]
              /\ today'[d] = today[d] /\ todayString'[d] = todayString[d]
        /\ (pc[d] # "idle" /\ pc'[d] = "idle")
           => (pc[d] = "done" /\ reloads' = reloads + 1)
        /\ pc[d] \notin {"idle", "done"} => log[d].local = "miss"]_vars

\* C19 witness: a resolution has ended and the calendar date of the device
\* has changed since, in the same session.
C19_Witness ==
    \E d \in Devices :
        /\ Done(d) /\ reloads = 0
        /\ DateString(now, d).day > todayString[d].day

\* C20: generateDailyRecipe never raises. When the call of the service
\* throws, the text is empty, or the text does not parse once the fences
\* are stripped, it returns null; what it returns otherwise is the value
\* the text parses to.
C20_GenerateNeverRaises ==
    [][\A d \in Devices :
        Leaves(d, "generate")
        => LET r == log'[d].response
               v == log'[d].returned
               parsed == JsonParse(StripFences(r.text))
           IN
           /\ v \in JsonValues
           /\ log'[d].caught => log'[d].written \in {"nothing", "blobOnly"}
           /\ (r.kind = "throw" \/ r.text = <<>> \/ ~parsed.ok) => v = Null
           /\ v # Null => (r.kind = "text" /\ parsed.ok /\ v = parsed.value)]_vars

\* C20 witness: one call came back null after the service threw, another
\* after a fenced text that is not JSON.
C20_Witness ==
    \E d, e \in Devices :
        /\ Failed(d) /\ log[d].response = Throws
        /\ Failed(e) /\ log[e].response = Text(Fenced(Corrupt))

\* C21: the table holds at most one row per date key, whatever upserts the
\* devices have made; a row enters the table only as the row an upsert in
\* flight sends, the date key and the generated recipe of its resolution.
C21_OneRecordPerKey ==
    [][/\ \A r1, r2 \in table' : r1.date = r2.date => r1 = r2
       /\ \A r \in table' \ table :
            \E d \in Devices :
                /\ pc[d] = "upsert" /\ pc'[d] = "done"
                /\ log[d].generated = "recipe"
                /\ r = Row(today[d], log[d].returned)]_vars

\* C21 witness: two devices upserted different recipes under one date key
\* and the table holds one row for it, the recipe of one of them.
C21_Witness ==
    \E d, e \in Devices :
        /\ d # e /\ today[d] = today[e]
        /\ log[d].published = "applied" /\ log[e].published = "applied"
        /\ log[d].returned # log[e].returned
        /\ table = {Row(today[e], log[e].returned)}

\* C22: when a resolution ended Resolved and the local cache holds what it
\* exposed under its freshness tag, the next resolution on the device under
\* the same tag is a local hit: it exposes the same recipe and calls neither
\* the shared store nor the generation service.
C22_LocalRoundTrip ==
    [][\A d \in Devices :
        (/\ Leaves(d, "idle")
         /\ prev[d].recipe # Null
         /\ prev[d].tag = todayString'[d]
         /\ Holds(localStorage[d], prev[d].recipe, prev[d].tag))
        => /\ log'[d].local = "hit"
           /\ dailyRecipe'[d] = prev[d].recipe
           /\ log'[d].selects = 0 /\ log'[d].generations = 0]_vars

\* C23: the table is changed only by the upsert of a resolution whose
\* generation returned a recipe and whose local write was made, and only in
\* the row of the date key of that resolution; a resolution that ended by a
\* local hit, by a shared hit or Failed has issued no upsert.
C23_OnlyGeneratorsWrite ==
    [][/\ table' # table
          => \E d \in Devices :
                /\ Leaves(d, "upsert")
                /\ log[d].generated = "recipe" /\ log[d].returned = dailyRecipe[d]
                /\ log[d].written = "both"
                /\ Holds(localStorage[d], dailyRecipe[d], todayString[d])
                /\ \A r \in (table' \ table) \cup (table \ table') :
                        r.date = today[d]
       /\ \A d \in Devices :
            (Done(d)' /\ (log'[d].local = "hit" \/ log'[d].shared = "hit" \/ Failed(d)'))
            => (log'[d].upserts = 0 /\ log'[d].published = "none")]_vars

\* C23 witness: an upsert was applied while the table held the row of
\* another date key, and that row is still there.
C23_Witness ==
    \E d \in Devices :
        /\ log[d].published = "applied" /\ log[d].written = "both"
        /\ \E r \in table : r.date # today[d]
        /\ \E r \in table : r.date = today[d]

\* C24: within a session the exposed recipe, once set, is not changed and
\* does not go back to null; the in-flight flag is true only between a
\* local miss and the end of the resolution, and a resolution that ended by
\* a local hit never raised it.
C24_RecipeAndFlag ==
    [][\A d \in Devices :
        /\ (dailyRecipe[d] # Null /\ pc'[d] # "idle")
           => dailyRecipe'[d] = dailyRecipe[d]
        /\ isGeneratingRecipe'[d]
           => (log'[d].local = "miss" /\ pc'[d] \notin {"idle", "done"})
        /\ (Leaves(d, "idle") /\ log'[d].local = "hit")
           => (~isGeneratingRecipe[d] /\ ~isGeneratingRecipe'[d])]_vars

\* C24 witness: one device is past a local miss with the flag raised while
\* another ended by a local hit with the flag down.
C24_Witness ==
    \E d, e \in Devices :
        /\ pc[d] = "generate" /\ isGeneratingRecipe[d]
        /\ Done(e) /\ log[e].local = "hit" /\ ~isGeneratingRecipe[e]
        /\ dailyRecipe[e] # Null

====
